---- MODULE Spec2Model ----
(***************************************************************************)
(* Model of instapaper_to_remarkable.py: one process that lists unread     *)
(* bookmarks, renders each new one to a PDF in a temporary directory,      *)
(* uploads it with rmapi and records it in a JSON ledger file.  The        *)
(* ledger file, the remote folder and the service's bookmarks persist      *)
(* between runs; a run may be killed at any step.                          *)
(***************************************************************************)
EXTENDS Integers, Sequences, FiniteSets, TLC

\* ---------------------------------------------------------------- bounds
NumItems == 2      \* bookmarks the service knows
MaxRuns == 2       \* runs of main() in one behaviour
MaxTail == 3       \* free characters at the end of a sanitised title

\* ------------------------------------------------------ program constants
MaxNameLen == 120  \* name[:120]

Forbidden == {"<", ">", ":", "\"", "/", "\\", "|", "?", "*"}
Whitespace == {" ", "\t", "\n", "\r"}
Untitled == <<"u", "n", "t", "i", "t", "l", "e", "d">>
DefaultTitle == <<"U", "n", "t", "i", "t", "l", "e", "d">>
PdfSuffix == <<".", "p", "d", "f">>

\* ----------------------------------------------------- sanitize_filename
\* re.sub(r'[<>:"/\\|?*]', "", title)
RemoveForbidden(s) == SelectSeq(s, LAMBDA c : c \notin Forbidden)

\* re.sub(r"\s+", " ", name): every maximal run of whitespace becomes " "
\* (of each run the last character is kept, as a space)
CollapseWhitespace(s) ==
    LET kept == SelectSeq([k \in 1 .. Len(s) |-> k],
                          LAMBDA k : ~(s[k] \in Whitespace /\ k < Len(s)
                                       /\ s[k + 1] \in Whitespace))
    IN  [j \in 1 .. Len(kept) |->
            IF s[kept[j]] \in Whitespace THEN " " ELSE s[kept[j]]]

\* str.strip(): drop the whitespace before the first and after the last
\* character that is not whitespace
Strip(s) ==
    LET solid == {k \in 1 .. Len(s) : s[k] \notin Whitespace}
    IN  IF solid = {} THEN <<>>
        ELSE SubSeq(s, CHOOSE k \in solid : \A j \in solid : k <= j,
                       CHOOSE k \in solid : \A j \in solid : k >= j)

\* name[:n]
Truncate(s, n) == IF Len(s) <= n THEN s ELSE SubSeq(s, 1, n)

sanitize_filename(t) ==
    LET name == Strip(CollapseWhitespace(RemoveForbidden(t)))
    IN  IF name # <<>> THEN Truncate(name, MaxNameLen) ELSE Untitled

\* ------------------------------------------------------------ input sets
Ids == 1 .. NumItems

Pad(n) == [k \in 1 .. n |-> "a"]
TailAlphabet == {"a", " ", "\t", ":"}
Tails == UNION {[1 .. k -> TailAlphabet] : k \in 0 .. MaxTail}
PadLens == {0, MaxNameLen - 2, MaxNameLen - 1, MaxNameLen}
TitleInputs == {Pad(n) \o t : n \in PadLens, t \in Tails}

\* A title as the listing's JSON carries it: a string, or null.
StrTitle(s) == [isStr |-> TRUE, s |-> s]
NullTitle == [isStr |-> FALSE, s |-> <<>>]
\* The titles bookmark i may carry: null, or a text; bookmark 2 may have a
\* title that differs from that of bookmark 1 only in a forbidden character.
TitleTexts(i) ==
    IF i = 1 THEN {<<"A", ":", "B">>}
    ELSE IF i = 2 THEN {<<"A", "B">>, <<"B">>}
    ELSE {<<"C">>}
TitleChoices(i) == {StrTitle(t) : t \in TitleTexts(i)} \cup {NullTitle}
ListedTitles == {t \in [Ids -> UNION {TitleChoices(i) : i \in Ids}] :
                    \A i \in Ids : t[i] \in TitleChoices(i)}

\* Orderings of distinct ids the list call may return.
RECURSIVE Perms(_)
Perms(S) ==
    IF S = {} THEN {<<>>}
    ELSE UNION {{<<x>> \o p : p \in Perms(S \ {x})} : x \in S}
Listings == UNION {Perms(S) : S \in SUBSET Ids}

\* str(bookmark["bookmark_id"])
Str(n) == ToString(n)

\* datetime.now(timezone.utc).isoformat(): some timestamp string
Now == "timestamp"

EmptyMap == [k \in {} |-> Now]
AbsentFile == [state |-> "absent", map |-> EmptyMap]
TruncatedFile == [state |-> "garbage", map |-> EmptyMap]
JsonFile(m) == [state |-> "json", map |-> m]
MapPut(m, k, v) == [x \in DOMAIN m \cup {k} |-> IF x = k THEN v ELSE m[x]]


\* ----------------------------------------------------------------- state
VARIABLES
    \* what outlives a run
    ledgerFile,     \* the file at config["processed_log"]
    remote,         \* remote folder: document name -> bookmark it was rendered from
    folderExists,   \* the remote folder has been created
    runs,           \* runs started so far
    \* the running process
    pc, config, rmapi, authStatus, bookmarks, processed, new_bookmarks, idx,
    bid, title, name, filename, tmpdir, tmpfiles, exc, exitCode,
    \* history of the run and of the deliveries
    net,            \* kinds of network call made in this run
    ledgerIO,       \* ledger file operations of this run
    tmpCreated,     \* temporary directories created by this run
    ledgerAtStart,  \* ledgerFile when the run started
    loadedKeys,     \* keys of the mapping load_processed returned
    invoked,        \* per stage, the bookmarks it was invoked for in this run
    attempted,      \* bookmarks handed to article_to_pdf, in order
    failed,         \* bookmarks whose fetch, extraction or upload reported failure
    uploadedOk,     \* bookmarks whose rmapi put exited 0 in this run
    flushed,        \* uploadedOk as of the last completed ledger write of the run
    delivered,      \* bookmarks whose rmapi put ever exited 0
    committed,      \* keys contained in some completed ledger write
    unrecorded      \* bookmarks delivered by a run that was killed before
                    \* a ledger write containing them completed

persistent == <<ledgerFile, remote, folderExists, runs, delivered,
                committed, unrecorded>>
locals == <<config, rmapi, authStatus, bookmarks, processed, new_bookmarks,
            idx, bid, title, name, filename, tmpdir, tmpfiles, exc, exitCode>>
history == <<net, ledgerIO, tmpCreated, ledgerAtStart, loadedKeys, invoked,
             attempted, failed, uploadedOk, flushed>>
vars == <<pc, persistent, locals, history>>

NoCalls == [fetch |-> {}, extract |-> {}, render |-> {}, upload |-> {}]

\* The process before main() has executed anything.
FreshProcess ==
    /\ config = "unchecked" /\ rmapi = "unchecked" /\ authStatus = 0
    /\ bookmarks = <<>> /\ processed = EmptyMap /\ new_bookmarks = <<>>
    /\ idx = 0 /\ bid = "" /\ title = NullTitle /\ name = <<>>
    /\ filename = <<>> /\ tmpdir = "none" /\ tmpfiles = EmptyMap
    /\ exc = FALSE /\ exitCode = -1
    /\ net = {} /\ ledgerIO = {} /\ tmpCreated = 0 /\ loadedKeys = {}
    /\ invoked = NoCalls /\ attempted = <<>> /\ failed = {}
    /\ uploadedOk = {} /\ flushed = {}

NothingDelivered ==
    /\ ledgerFile = AbsentFile /\ remote = EmptyMap /\ folderExists = FALSE
    /\ runs = 0 /\ delivered = {}
    /\ committed = {} /\ unrecorded = {}

Init ==
    /\ pc = "idle"
    /\ NothingDelivered
    /\ ledgerAtStart = AbsentFile
    /\ FreshProcess

\* sys.exit(code), or an exception that leaves main()
Exit(code) == pc' = "done" /\ exitCode' = code

\* `continue`, the end of the loop body, or the per-item `except Exception`
NextItem == idx' = idx + 1 /\ pc' = "loop"

\* ---------------------------------------------------------------- main()
StartRun ==
    /\ pc \in {"idle", "done", "killed"}
    /\ runs < MaxRuns
    /\ runs' = runs + 1
    /\ pc' = "load_config"
    /\ ledgerAtStart' = ledgerFile
    /\ config' = "unchecked" /\ rmapi' = "unchecked" /\ authStatus' = 0
    /\ bookmarks' = <<>> /\ processed' = EmptyMap /\ new_bookmarks' = <<>>
    /\ idx' = 0 /\ bid' = "" /\ title' = NullTitle /\ name' = <<>>
    /\ filename' = <<>> /\ tmpdir' = "none" /\ tmpfiles' = EmptyMap
    /\ exc' = FALSE /\ exitCode' = -1
    /\ net' = {} /\ ledgerIO' = {} /\ tmpCreated' = 0 /\ loadedKeys' = {}
    /\ invoked' = NoCalls /\ attempted' = <<>> /\ failed' = {}
    /\ uploadedOk' = {} /\ flushed' = {}
    /\ UNCHANGED <<ledgerFile, remote, folderExists, delivered,
                   committed, unrecorded>>

load_config ==
    /\ pc = "load_config"
    /\ \E missing \in BOOLEAN :
         IF missing
         THEN config' = "missing" /\ Exit(1)
         ELSE config' = "ok" /\ pc' = "check_rmapi" /\ UNCHANGED exitCode
    /\ UNCHANGED <<persistent, history, rmapi, authStatus, bookmarks, processed,
                   new_bookmarks, idx, bid, title, name, filename, tmpdir,
                   tmpfiles, exc>>

\* Variant: a missing rmapi is logged but the run goes on.
check_rmapi_no_exit ==
    /\ pc = "check_rmapi"
    /\ \E found \in BOOLEAN :
         rmapi' = IF found THEN "ok" ELSE "missing"
    /\ pc' = "instapaper_auth"
    /\ UNCHANGED <<persistent, history, config, authStatus, bookmarks, processed,
                   new_bookmarks, idx, bid, title, name, filename, tmpdir,
                   tmpfiles, exc, exitCode>>

check_rmapi ==
    /\ pc = "check_rmapi"
    /\ \E found \in BOOLEAN :
         IF found
         THEN rmapi' = "ok" /\ pc' = "instapaper_auth" /\ UNCHANGED exitCode
         ELSE rmapi' = "missing" /\ Exit(1)
    /\ UNCHANGED <<persistent, history, config, authStatus, bookmarks, processed,
                   new_bookmarks, idx, bid, title, name, filename, tmpdir,
                   tmpfiles, exc>>

instapaper_auth ==
    /\ pc = "instapaper_auth"
    /\ net' = net \cup {"auth"}
    /\ \E status \in {200, 401} :
         /\ authStatus' = status
         /\ IF status # 200
            THEN Exit(1)
            ELSE pc' = "fetch_bookmarks" /\ UNCHANGED exitCode
    /\ UNCHANGED <<persistent, ledgerIO, tmpCreated, ledgerAtStart, loadedKeys,
                   invoked, attempted, failed, uploadedOk, flushed, config,
                   rmapi, bookmarks, processed, new_bookmarks, idx, bid, title,
                   name, filename, tmpdir, tmpfiles, exc>>

\* The records of the list response: a meta record, then the bookmarks.
ListResponse(listing, titles) ==
    <<[type |-> "meta"]>> \o
    [k \in 1 .. Len(listing) |->
        [type |-> "bookmark", bookmark_id |-> listing[k],
         title |-> titles[listing[k]]]]

fetch_bookmarks ==
    /\ pc = "fetch_bookmarks"
    /\ net' = net \cup {"list"}
    /\ \E status \in {200, 500}, listing \in Listings,
          titles \in ListedTitles :
         bookmarks' = IF status # 200 THEN <<>>
                      ELSE SelectSeq(ListResponse(listing, titles),
                                     LAMBDA item : item.type = "bookmark")
    /\ IF bookmarks' = <<>>
       THEN Exit(0)
       ELSE pc' = "load_processed" /\ UNCHANGED exitCode
    /\ UNCHANGED <<persistent, ledgerIO, tmpCreated, ledgerAtStart, loadedKeys,
                   invoked, attempted, failed, uploadedOk, flushed, config,
                   rmapi, authStatus, processed, new_bookmarks, idx, bid, title,
                   name, filename, tmpdir, tmpfiles, exc>>

\* Variant: the listing is not filtered against the ledger.
IsNew_unfiltered(b, proc) == TRUE

\* str(b["bookmark_id"]) not in processed
IsNew(b, proc) == Str(b.bookmark_id) \notin DOMAIN proc

\* load_processed, the filter and mkdtemp
load_processed ==
    /\ pc = "load_processed"
    /\ ledgerIO' = ledgerIO \cup {"read"}
    /\ IF ledgerFile.state = "garbage"
       THEN \* json.loads raises; nothing in main() catches it
            /\ Exit(1)
            /\ UNCHANGED <<processed, new_bookmarks, idx, tmpdir, tmpCreated,
                           loadedKeys>>
       ELSE /\ processed' = ledgerFile.map
            /\ loadedKeys' = DOMAIN ledgerFile.map
            /\ new_bookmarks' =
                 SelectSeq(bookmarks, LAMBDA b : IsNew(b, processed'))
            /\ IF new_bookmarks' = <<>>
               THEN Exit(0) /\ UNCHANGED <<idx, tmpdir, tmpCreated>>
               ELSE /\ tmpdir' = "exists"
                    /\ tmpCreated' = tmpCreated + 1
                    /\ idx' = 1
                    /\ pc' = "loop"
                    /\ UNCHANGED exitCode
    /\ UNCHANGED <<persistent, net, ledgerAtStart, invoked, attempted, failed,
                   uploadedOk, flushed, config, rmapi, authStatus, bookmarks,
                   bid, title, name, filename, tmpfiles, exc>>

\* bookmark.get(key, default)
DictGet(b, key, default) == IF key \in DOMAIN b THEN b[key] ELSE default

\* The head of the for loop and the statements before the inner try.
loop_head ==
    /\ pc = "loop"
    /\ IF idx > Len(new_bookmarks)
       THEN pc' = "finally" /\ UNCHANGED <<bid, title, name, filename, exc>>
       ELSE LET bookmark == new_bookmarks[idx]
                t == DictGet(bookmark, "title", StrTitle(DefaultTitle))
            IN  /\ bid' = Str(bookmark.bookmark_id)
                /\ title' = t
                /\ IF t.isStr
                   THEN /\ name' = sanitize_filename(t.s)
                        /\ filename' = name' \o PdfSuffix
                        /\ pc' = "article_to_pdf"
                        /\ UNCHANGED exc
                   ELSE \* re.sub raises TypeError outside the inner try
                        /\ exc' = TRUE
                        /\ pc' = "finally"
                        /\ UNCHANGED <<name, filename>>
    /\ UNCHANGED <<persistent, history, config, rmapi, authStatus, bookmarks,
                   processed, new_bookmarks, idx, tmpdir, tmpfiles, exitCode>>

Called(stages) ==
    [s \in DOMAIN invoked |->
        IF s \in stages THEN invoked[s] \cup {bid} ELSE invoked[s]]

article_to_pdf ==
    /\ pc = "article_to_pdf"
    /\ attempted' = Append(attempted, bid)
    /\ net' = net \cup {"fetch_url"}
    /\ \E outcome \in {"no_html", "no_content", "render_raises", "written"} :
         /\ invoked' = Called(CASE outcome = "no_html" -> {"fetch"}
                                [] outcome = "no_content" -> {"fetch", "extract"}
                                [] OTHER -> {"fetch", "extract", "render"})
         /\ failed' = IF outcome \in {"no_html", "no_content"}
                      THEN failed \cup {bid} ELSE failed
         /\ IF outcome = "written"
            THEN /\ tmpfiles' = MapPut(tmpfiles, filename, bid)
                 /\ pc' = "upload_to_remarkable"
                 /\ UNCHANGED idx
            ELSE NextItem /\ UNCHANGED tmpfiles
    /\ UNCHANGED <<persistent, ledgerIO, tmpCreated, ledgerAtStart, loadedKeys,
                   uploadedOk, flushed, config, rmapi, authStatus, bookmarks,
                   processed, new_bookmarks, bid, title, name, filename, tmpdir,
                   exc, exitCode>>

\* Variant: the exit status of rmapi put is not looked at.
UploadResult_unchecked(returncode) == TRUE

\* upload_to_remarkable's result for the exit status of rmapi put
UploadResult(returncode) == returncode = 0

upload_to_remarkable ==
    /\ pc = "upload_to_remarkable"
    /\ invoked' = Called({"upload"})
    /\ net' = net \cup {"rmapi"}
    /\ \E mkdirOk \in BOOLEAN, put \in {"exit0", "exit1", "raises"} :
         /\ folderExists' = (folderExists \/ mkdirOk)
         /\ put = "exit0" => folderExists'
         /\ IF put = "exit0"
            THEN /\ remote' = MapPut(remote, filename, tmpfiles[filename])
                 /\ delivered' = delivered \cup {bid}
                 /\ uploadedOk' = uploadedOk \cup {bid}
            ELSE UNCHANGED <<remote, delivered, uploadedOk>>
         /\ IF put # "raises" /\ UploadResult(IF put = "exit0" THEN 0 ELSE 1)
            THEN pc' = "save_open" /\ UNCHANGED <<idx, failed>>
            ELSE /\ NextItem
                 /\ failed' = IF put = "exit1" THEN failed \cup {bid} ELSE failed
    /\ UNCHANGED <<ledgerFile, runs, committed, unrecorded, ledgerIO,
                   tmpCreated,
                   ledgerAtStart, loadedKeys, attempted, flushed, config,
                   rmapi, authStatus, bookmarks, processed, new_bookmarks, bid,
                   title, name, filename, tmpdir, tmpfiles, exc, exitCode>>

\* Variant: the delivery is not entered into the mapping.
Mark_forgotten(proc, b, now) == proc

\* processed[bid] = datetime.now(timezone.utc).isoformat()
Mark(proc, b, now) == MapPut(proc, b, now)

\* The assignment above, then save_processed up to the open() of write_text,
\* which truncates the file.
save_open ==
    /\ pc = "save_open"
    /\ processed' = Mark(processed, bid, Now)
    /\ ledgerIO' = ledgerIO \cup {"write"}
    /\ \E opened \in BOOLEAN :
         IF opened
         THEN /\ ledgerFile' = TruncatedFile
              /\ pc' = "save_write"
              /\ UNCHANGED idx
         ELSE \* mkdir or open raises; caught by the per-item except
              NextItem /\ UNCHANGED ledgerFile
    /\ UNCHANGED <<remote, folderExists, runs, delivered,
                   committed, unrecorded, net, tmpCreated, ledgerAtStart, loadedKeys,
                   invoked, attempted, failed, uploadedOk, flushed, config,
                   rmapi, authStatus, bookmarks, new_bookmarks, bid, title,
                   name, filename, tmpdir, tmpfiles, exc, exitCode>>

\* The write and close of write_text(json.dumps(processed)), and the rest of
\* the loop body.
save_write ==
    /\ pc = "save_write"
    /\ \E written \in BOOLEAN :
         IF written
         THEN /\ ledgerFile' = JsonFile(processed)
              /\ committed' = committed \cup DOMAIN processed
              /\ flushed' = uploadedOk
         ELSE \* the write raises; caught by the per-item except
              UNCHANGED <<ledgerFile, committed, flushed>>
    /\ NextItem
    /\ UNCHANGED <<remote, folderExists, runs, delivered,
                   unrecorded, net, ledgerIO, tmpCreated, ledgerAtStart, loadedKeys,
                   invoked, attempted, failed, uploadedOk, config, rmapi,
                   authStatus, bookmarks, processed, new_bookmarks, bid, title,
                   name, filename, tmpdir, tmpfiles, exc, exitCode>>

\* Variant: the directory is removed after the loop, not in a finally.
finally_after_loop ==
    /\ pc = "finally"
    /\ IF exc
       THEN UNCHANGED <<tmpdir, tmpfiles>>
       ELSE tmpdir' = "removed" /\ tmpfiles' = EmptyMap
    /\ Exit(IF exc THEN 1 ELSE 0)
    /\ UNCHANGED <<persistent, history, config, rmapi, authStatus, bookmarks,
                   processed, new_bookmarks, idx, bid, title, name, filename,
                   exc>>

\* finally: shutil.rmtree(tmpdir); then the pending exception leaves main(),
\* or main() logs the summary and returns.
finally ==
    /\ pc = "finally"
    /\ tmpdir' = "removed"
    /\ tmpfiles' = EmptyMap
    /\ Exit(IF exc THEN 1 ELSE 0)
    /\ UNCHANGED <<persistent, history, config, rmapi, authStatus, bookmarks,
                   processed, new_bookmarks, idx, bid, title, name, filename,
                   exc>>

\* The process is terminated externally: its memory is gone, what it put on
\* disk and on the remote store stays.
Kill ==
    /\ pc \notin {"idle", "done", "killed", "sanitize", "sanitized"}
    /\ pc' = "killed"
    /\ unrecorded' = unrecorded \cup (uploadedOk \ flushed)
    /\ config' = "unchecked" /\ rmapi' = "unchecked" /\ authStatus' = 0
    /\ bookmarks' = <<>> /\ processed' = EmptyMap /\ new_bookmarks' = <<>>
    /\ idx' = 0 /\ bid' = "" /\ title' = NullTitle /\ name' = <<>>
    /\ filename' = <<>> /\ exc' = FALSE
    /\ net' = {} /\ ledgerIO' = {} /\ loadedKeys' = {}
    /\ invoked' = NoCalls /\ attempted' = <<>> /\ failed' = {}
    /\ uploadedOk' = {} /\ flushed' = {}
    /\ UNCHANGED <<ledgerFile, remote, folderExists, runs, delivered,
                   committed, tmpdir, tmpfiles, tmpCreated,
                   ledgerAtStart, exitCode>>

Next ==
    \/ StartRun
    \/ load_config
    \/ check_rmapi
    \/ instapaper_auth
    \/ fetch_bookmarks
    \/ load_processed
    \/ loop_head
    \/ article_to_pdf
    \/ upload_to_remarkable
    \/ save_open
    \/ save_write
    \/ finally
    \/ Kill

Spec == Init /\ [][Next]_vars

\* ------------------------------------ sanitize_filename on bounded titles
InitSanitize ==
    /\ pc = "sanitize"
    /\ NothingDelivered
    /\ ledgerAtStart = AbsentFile
    /\ config = "unchecked" /\ rmapi = "unchecked" /\ authStatus = 0
    /\ bookmarks = <<>> /\ processed = EmptyMap /\ new_bookmarks = <<>>
    /\ idx = 0 /\ bid = "" /\ name = <<>>
    /\ filename = <<>> /\ tmpdir = "none" /\ tmpfiles = EmptyMap
    /\ exc = FALSE /\ exitCode = -1
    /\ net = {} /\ ledgerIO = {} /\ tmpCreated = 0 /\ loadedKeys = {}
    /\ invoked = NoCalls /\ attempted = <<>> /\ failed = {}
    /\ uploadedOk = {} /\ flushed = {}
    /\ title \in {StrTitle(t) : t \in TitleInputs}

Sanitize ==
    /\ pc = "sanitize"
    /\ name' = sanitize_filename(title.s)
    /\ pc' = "sanitized"
    /\ UNCHANGED <<persistent, history, config, rmapi, authStatus, bookmarks,
                   processed, new_bookmarks, idx, bid, title, filename, tmpdir,
                   tmpfiles, exc, exitCode>>

NextSanitize == Sanitize

SpecSanitize == InitSanitize /\ [][NextSanitize]_vars


\* ------------------------------------------------------------ properties
Keys(file) == DOMAIN file.map
NewIds == [k \in 1 .. Len(new_bookmarks) |-> Str(new_bookmarks[k].bookmark_id)]
Listed == {Str(bookmarks[k].bookmark_id) : k \in 1 .. Len(bookmarks)}
Ended == pc = "done"
LoopStarted == tmpCreated > 0

\* C1: no stage (fetch, extract, render, upload) is invoked in a run for a
\* bookmark whose id is a key of the ledger the run loaded.
C1_Idempotent ==
    \A stage \in DOMAIN invoked : invoked[stage] \cap loadedKeys = {}

\* A run ended that listed a bookmark already in the loaded ledger and
\* uploaded another one.
C1_Witness ==
    /\ Ended
    /\ Listed \cap loadedKeys # {}
    /\ invoked.upload # {}

\* C2: every key of the persisted ledger is a bookmark whose rmapi put had
\* exited 0, in every state of every sequence of runs, killed runs included.
C2_NeverLost ==
    ledgerFile.state = "json" => Keys(ledgerFile) \subseteq delivered

\* A bookmark delivered by a run killed before recording it was delivered
\* again by a later run, which recorded it.
C2_Witness ==
    \E b \in unrecorded :
        /\ b \notin Keys(ledgerAtStart)
        /\ b \in uploadedOk
        /\ ledgerFile.state = "json"
        /\ b \in Keys(ledgerFile)

\* What the next run's load_processed gets out of the file.
Loadable(file) == IF file.state = "garbage" THEN {} ELSE Keys(file)

\* C3: after a run is killed, the ledger the next run loads holds every key
\* whose ledger write had completed and every entry of the start of the run.
C3_ProgressSurvivesKill ==
    pc = "killed" =>
        /\ committed \subseteq Loadable(ledgerFile)
        /\ Loadable(ledgerAtStart) \subseteq Loadable(ledgerFile)

\* C4: when a run has ended in which fetch, extraction or upload reported
\* failure for some item, no such item is in the ledger, every item of the
\* filtered list was attempted in listing order, and the exit status is 0.
C4_FailureIsolated ==
    (Ended /\ failed # {}) =>
        /\ failed \cap DOMAIN processed = {}
        /\ ledgerFile.state = "json" => failed \cap Keys(ledgerFile) = {}
        /\ attempted = NewIds
        /\ exitCode = 0

\* C5: a run that started the per-item loop ends with exit status 0 after
\* reaching every item of the filtered list; only a startup failure (missing
\* configuration, missing rmapi, rejected authentication) ends a run non-zero.
C5_PerItemBoundary ==
    /\ (Ended /\ LoopStarted) => (exitCode = 0 /\ idx > Len(new_bookmarks))
    /\ (Ended /\ LoopStarted /\ exitCode # 0) =>
           (config = "missing" \/ rmapi = "missing" \/ authStatus \notin {0, 200})

\* C6 as stated: after a completed run the ledger's keys are those of the
\* start of the run and the bookmarks whose upload succeeded in the run,
\* and as many entries were gained as there are such bookmarks.
C6_EndState_AsStated ==
    (Ended /\ exitCode = 0 /\ ledgerAtStart.state # "garbage") =>
        /\ ledgerFile.state # "garbage"
        /\ Keys(ledgerFile) = Keys(ledgerAtStart) \cup uploadedOk
        /\ Cardinality(Keys(ledgerFile) \ Keys(ledgerAtStart))
             = Cardinality(uploadedOk)

\* C6 amended: after a completed run that leaves a loadable ledger file, its
\* keys are those of the start of the run and the bookmarks whose upload
\* had succeeded by the last ledger write of the run that completed, and as
\* many entries were gained as there are such bookmarks.
C6_EndState ==
    (Ended /\ exitCode = 0 /\ ledgerAtStart.state # "garbage"
           /\ ledgerFile.state # "garbage") =>
        /\ Keys(ledgerFile) = Keys(ledgerAtStart) \cup flushed
        /\ Cardinality(Keys(ledgerFile) \ Keys(ledgerAtStart))
             = Cardinality(flushed)

\* A completed run in which one upload was recorded and the ledger write of
\* another uploaded bookmark raised.
C6_Witness ==
    /\ Ended /\ exitCode = 0
    /\ ledgerFile.state = "json"
    /\ flushed # {}
    /\ uploadedOk \ flushed # {}

\* C7: network calls happen only after load_config and check_rmapi passed,
\* the first being the authentication; a missing setting or a missing rmapi
\* exits non-zero with no network call; a rejected authentication exits
\* non-zero with no list call, no ledger access and no per-item work.
C7_StartupOrder ==
    /\ net # {} => (config = "ok" /\ rmapi = "ok" /\ "auth" \in net)
    /\ (config = "missing" \/ rmapi = "missing") =>
           (Ended /\ exitCode = 1 /\ net = {})
    /\ authStatus \notin {0, 200} =>
           /\ Ended /\ exitCode = 1
           /\ net = {"auth"}
           /\ ledgerIO = {}
           /\ ledgerFile = ledgerAtStart
           /\ attempted = <<>> /\ tmpCreated = 0

\* A run with a ledger on disk and bookmarks to list ended on a rejected
\* authentication.
C7_Witness ==
    /\ Ended
    /\ authStatus = 401
    /\ ledgerFile.state = "json"

\* C8: the sanitised name has no forbidden character, no whitespace but
\* single spaces, none at either end, at most 120 characters and at least
\* one, and is "untitled" exactly when the title is empty once the forbidden
\* characters are removed and it is trimmed.
C8_Sanitized ==
    pc = "sanitized" =>
        /\ \A k \in 1 .. Len(name) : name[k] \notin Forbidden
        /\ \A k \in 1 .. Len(name) :
               name[k] \in Whitespace =>
                   /\ name[k] = " "
                   /\ k < Len(name) => name[k + 1] \notin Whitespace
        /\ name # <<>>
        /\ name[1] \notin Whitespace
        /\ name[Len(name)] \notin Whitespace
        /\ Len(name) <= MaxNameLen
        /\ (name = Untitled) <=> (Strip(RemoveForbidden(title.s)) = <<>>)

\* C9: a run creates at most one temporary directory, and once the process
\* has left main() by return or by exception the directory it created and
\* the documents in it are gone.
C9_TmpdirRemoved ==
    /\ tmpCreated <= 1
    /\ (Ended /\ tmpCreated > 0) => (tmpdir = "removed" /\ tmpfiles = EmptyMap)

\* A run left main() on an exception of the loop after rendering a document.
C9_Witness ==
    /\ Ended /\ exc
    /\ invoked.render # {}
    /\ tmpdir = "removed"

\* C10: after a completed run the remote folder holds, for every key the run
\* added to the ledger, a document rendered from that bookmark.
C10_OwnDocument ==
    (Ended /\ exitCode = 0 /\ ledgerFile.state = "json") =>
        \A b \in Keys(ledgerFile) \ Keys(ledgerAtStart) :
            \E doc \in DOMAIN remote : remote[doc] = b

====
